---- MODULE Spec2Model ----
(***************************************************************************)
(* Model of BookAnalyzer (src/main.cpp): a dual price-level order book,    *)
(* the order-id index, the cumulative depth valuation and the output       *)
(* suppression.  Every C++ method is an operator from a state record (the  *)
(* object's fields plus what the event wrote to std::cout) to the state    *)
(* record after the call; one action of the model is one input line        *)
(* processed by main().  Timestamps are pass-through values and omitted.   *)
(***************************************************************************)
EXTENDS Integers, Sequences, FiniteSets, TLC

\* ------------------------------------------------- constants and bounds
\* int target = 200 (main), kept in BookAnalyzer::target_
target_ == 200

\* number of input lines main() reads before end of file
MaxEvents == 4

Ids == {"a", "b"}

\* prices 9.00 and 10.00; with whole prices every amount is an exact double,
\* so operator!= on amounts and the two-decimal text of a line agree
Prices == {9, 10}

NewSizes == {target_ \div 2, target_}

ReduceSizes == {target_ \div 2, target_}

Sides == {"BUY", "SELL"}

\* iteration orders an unordered_map may walk its keys in
IterOrders == {o \in [1..Cardinality(Ids) -> Ids] : \A i, j \in 1..Cardinality(Ids) : o[i] = o[j] => i = j}

\* buyMap_ .. prevNanIncome_ : the fields of BookAnalyzer
\* cout    : the lines the last input line wrote to std::cout
\* walk    : the locals (side, amount, currSize) of printBuy / printSell at
\*           their call of print during the last input line, if they ran
\* ev      : the last input line; known = its id had an index entry,
\*           rested = its id was stored in a level, both before the line
\* emitted : per side, all lines written so far
\* nEvents : number of input lines processed
VARIABLES buyMap_, sellMap_, hashTable_, totBuySize_, totSellSize_,
          prevExpenses_, prevIncome_, prevNanExp_, prevNanIncome_,
          cout, walk, ev, emitted, nEvents

vars == <<buyMap_, sellMap_, hashTable_, totBuySize_, totSellSize_,
          prevExpenses_, prevIncome_, prevNanExp_, prevNanIncome_,
          cout, walk, ev, emitted, nEvents>>

\* ----------------------------------------------------- container helpers
\* std::map / std::unordered_map as functions on the set of keys present
EmptyMap == [x \in {} |-> 0]
\* insert written as an assignment m[k] = v: an existing key is overwritten
MapInsert_overwrites(m, k, v) == [x \in DOMAIN m \cup {k} |-> IF x = k THEN v ELSE m[x]]

\* insert / emplace: no effect when the key is already present
MapInsert(m, k, v) == IF k \in DOMAIN m THEN m ELSE [x \in DOMAIN m \cup {k} |-> IF x = k THEN v ELSE m[x]]

MapErase(m, k) == [x \in DOMAIN m \ {k} |-> m[x]]

comparatorBuy(a, b) == a > b

comparatorSell(a, b) == a < b

\* keys of the Buy map in iteration order (begin() .. end())
RECURSIVE buyIteration(_)
buyIteration(keys) ==
    IF keys = {} THEN <<>>
    ELSE LET first == CHOOSE x \in keys : \A y \in keys \ {x} : comparatorBuy(x, y)
         IN  <<first>> \o buyIteration(keys \ {first})

\* keys of the Sell map in iteration order (begin() .. end())
RECURSIVE sellIteration(_)
sellIteration(keys) ==
    IF keys = {} THEN <<>>
    ELSE LET first == CHOOSE x \in keys : \A y \in keys \ {x} : comparatorSell(x, y)
         IN  <<first>> \o sellIteration(keys \ {first})

\* ------------------------------------------------------------ the methods
createNewInnerMap(id, size) == [x \in {id} |-> size]

\* the while loop of searchInnerMap over the keys in iteration order its
RECURSIVE innerLoop(_, _, _, _)
innerLoop(innerMap, its, localSize, room) ==
    IF localSize < room /\ its # <<>>
    THEN innerLoop(innerMap, Tail(its), localSize + innerMap[Head(its)], room)
    ELSE localSize

searchInnerMap(innerMap, price, amount, currSize, ord) ==
    LET its   == SelectSeq(ord, LAMBDA i : i \in DOMAIN innerMap)
        summed == innerLoop(innerMap, its, 0, target_ - currSize)
        localSize == IF summed > target_ - currSize THEN target_ - currSize ELSE summed
    IN  [amount |-> amount + localSize * price, currSize |-> currSize + localSize]
\* printNA with the labels the other way round (Buy as B, Sell as S)
printNA_ownLabel(s, side) ==
    LET line == [label |-> IF side = "BUY" THEN "B" ELSE "S", na |-> TRUE, amount |-> 0]
    IN  [prevNan |-> TRUE, cout |-> s.cout \o <<line>>]

printNA(s, side) ==
    LET line == [label |-> IF side = "BUY" THEN "S" ELSE "B", na |-> TRUE, amount |-> 0]
    IN  [prevNan |-> TRUE, cout |-> s.cout \o <<line>>]

\* print without the suppression test: every call writes a line
print_alwaysEmits(s, amount, prevAmount, prevIsNan, side) ==
    LET line == [label |-> IF side = "BUY" THEN "S" ELSE "B", na |-> FALSE, amount |-> amount]
    IN  [cout |-> s.cout \o <<line>>,
         prevAmount |-> amount,
         prevIsNan |-> FALSE]

print(s, amount, prevAmount, prevIsNan, side) ==
    LET line == [label |-> IF side = "BUY" THEN "S" ELSE "B", na |-> FALSE, amount |-> amount]
    IN  [cout |-> IF amount # prevAmount \/ prevIsNan = TRUE THEN s.cout \o <<line>> ELSE s.cout,
         prevAmount |-> amount,
         prevIsNan |-> FALSE]

\* the while loop of printBuy / printSell over the levels in iteration order its
RECURSIVE levelLoop(_, _, _, _)
levelLoop(map, its, acc, ord) ==
    IF acc.currSize < target_ /\ its # <<>>
    THEN levelLoop(map, Tail(its),
                   searchInnerMap(map[Head(its)], Head(its), acc.amount, acc.currSize, ord), ord)
    ELSE acc
\* printBuy handing the Sell side's previous value and flag to print
printBuy_usesSellState(s, ord) ==
    LET acc == levelLoop(s.buyMap_, buyIteration(DOMAIN s.buyMap_), [amount |-> 0, currSize |-> 0], ord)
        p   == print(s, acc.amount, s.prevIncome_, s.prevNanIncome_, "BUY")
    IN  [s EXCEPT !.cout = p.cout, !.prevIncome_ = p.prevAmount, !.prevNanIncome_ = p.prevIsNan,
                  !.walk = <<[side |-> "BUY", amount |-> acc.amount, currSize |-> acc.currSize]>>]

printBuy(s, ord) ==
    LET acc == levelLoop(s.buyMap_, buyIteration(DOMAIN s.buyMap_), [amount |-> 0, currSize |-> 0], ord)
        p   == print(s, acc.amount, s.prevExpenses_, s.prevNanExp_, "BUY")
    IN  [s EXCEPT !.cout = p.cout, !.prevExpenses_ = p.prevAmount, !.prevNanExp_ = p.prevIsNan,
                  !.walk = <<[side |-> "BUY", amount |-> acc.amount, currSize |-> acc.currSize]>>]

printSell(s, ord) ==
    LET acc == levelLoop(s.sellMap_, sellIteration(DOMAIN s.sellMap_), [amount |-> 0, currSize |-> 0], ord)
        p   == print(s, acc.amount, s.prevIncome_, s.prevNanIncome_, "SELL")
    IN  [s EXCEPT !.cout = p.cout, !.prevIncome_ = p.prevAmount, !.prevNanIncome_ = p.prevIsNan,
                  !.walk = <<[side |-> "SELL", amount |-> acc.amount, currSize |-> acc.currSize]>>]
\* handleNewBuyOrder revaluing the other side (printSell pasted for printBuy)
handleNewBuyOrder_printsSell(s, size, price, id, ord) ==
    LET s1 == [s EXCEPT !.totBuySize_ = @ + size]
        s2 == IF price \in DOMAIN s1.buyMap_
              THEN [s1 EXCEPT !.buyMap_[price] = MapInsert(@, id, size)]
              ELSE [s1 EXCEPT !.buyMap_ = MapInsert(@, price, createNewInnerMap(id, size))]
    IN  IF target_ <= s2.totBuySize_ THEN printSell(s2, ord) ELSE s2

handleNewBuyOrder(s, size, price, id, ord) ==
    LET s1 == [s EXCEPT !.totBuySize_ = @ + size]
        s2 == IF price \in DOMAIN s1.buyMap_
              THEN [s1 EXCEPT !.buyMap_[price] = MapInsert(@, id, size)]
              ELSE [s1 EXCEPT !.buyMap_ = MapInsert(@, price, createNewInnerMap(id, size))]
    IN  IF target_ <= s2.totBuySize_ THEN printBuy(s2, ord) ELSE s2

handleNewSellOrder(s, size, price, id, ord) ==
    LET s1 == [s EXCEPT !.totSellSize_ = @ + size]
        s2 == IF price \in DOMAIN s1.sellMap_
              THEN [s1 EXCEPT !.sellMap_[price] = MapInsert(@, id, size)]
              ELSE [s1 EXCEPT !.sellMap_ = MapInsert(@, price, createNewInnerMap(id, size))]
    IN  IF target_ <= s2.totSellSize_ THEN printSell(s2, ord) ELSE s2
\* handleNewOrder recording the id with hashTable_[id] = ..., which overwrites
handleNewOrder_overwritesIndex(s, id, side, size, price, ord) ==
    LET s1 == IF side = "BUY" THEN handleNewBuyOrder(s, size, price, id, ord)
              ELSE IF side = "SELL" THEN handleNewSellOrder(s, size, price, id, ord)
              ELSE s
        entry == [side |-> side, price |-> price]
    IN  [s1 EXCEPT !.hashTable_ = [x \in DOMAIN @ \cup {id} |-> IF x = id THEN entry ELSE @[x]]]

handleNewOrder(s, id, side, size, price, ord) ==
    LET s1 == IF side = "BUY" THEN handleNewBuyOrder(s, size, price, id, ord)
              ELSE IF side = "SELL" THEN handleNewSellOrder(s, size, price, id, ord)
              ELSE s
    IN  [s1 EXCEPT !.hashTable_ = MapInsert(@, id, [side |-> side, price |-> price])]

\* searchId with the total decremented outside the found branch
searchId_decrementsWhenMissing(innerMap, id, size, removeFromMemory, totSize) ==
    IF id \in DOMAIN innerMap
    THEN LET reduced == innerMap[id] - size
             erased  == reduced <= 0
             inner2  == IF erased THEN MapErase(innerMap, id) ELSE [innerMap EXCEPT ![id] = reduced]
         IN  [found |-> TRUE,
              innerMap |-> inner2,
              removeFromMemory |-> IF erased /\ DOMAIN inner2 = {} THEN TRUE ELSE removeFromMemory,
              totSize |-> totSize - size]
    ELSE [found |-> FALSE, innerMap |-> innerMap, removeFromMemory |-> removeFromMemory,
          totSize |-> totSize - size]

searchId(innerMap, id, size, removeFromMemory, totSize) ==
    IF id \in DOMAIN innerMap
    THEN LET reduced == innerMap[id] - size
             erased  == reduced <= 0
             inner2  == IF erased THEN MapErase(innerMap, id) ELSE [innerMap EXCEPT ![id] = reduced]
         IN  [found |-> TRUE,
              innerMap |-> inner2,
              removeFromMemory |-> IF erased /\ DOMAIN inner2 = {} THEN TRUE ELSE removeFromMemory,
              totSize |-> totSize - size]
    ELSE [found |-> FALSE, innerMap |-> innerMap, removeFromMemory |-> removeFromMemory, totSize |-> totSize]
\* reduceBuyOrder without the final buyMap_.erase(price)
reduceBuyOrder_keepsLevel(s, id, price, size, removeFromMemory, ord) ==
    IF price \in DOMAIN s.buyMap_
    THEN LET f  == searchId(s.buyMap_[price], id, size, removeFromMemory, s.totBuySize_)
             s1 == [s EXCEPT !.buyMap_[price] = f.innerMap, !.totBuySize_ = f.totSize]
             s2 == IF f.found
                   THEN IF target_ <= s1.totBuySize_ THEN printBuy(s1, ord)
                        ELSE IF target_ > s1.totBuySize_ /\ s1.prevNanExp_ = FALSE
                             THEN LET n == printNA(s1, "BUY")
                                  IN  [s1 EXCEPT !.prevNanExp_ = n.prevNan, !.cout = n.cout]
                             ELSE s1
                   ELSE s1
         IN  [st |-> s2, removeFromMemory |-> f.removeFromMemory]
    ELSE [st |-> s, removeFromMemory |-> removeFromMemory]

\* returns the state record with an extra field removeFromMemory (the bool& parameter)
reduceBuyOrder(s, id, price, size, removeFromMemory, ord) ==
    LET r  == IF price \in DOMAIN s.buyMap_
              THEN LET f  == searchId(s.buyMap_[price], id, size, removeFromMemory, s.totBuySize_)
                       s1 == [s EXCEPT !.buyMap_[price] = f.innerMap, !.totBuySize_ = f.totSize]
                       s2 == IF f.found
                             THEN IF target_ <= s1.totBuySize_ THEN printBuy(s1, ord)
                                  ELSE IF target_ > s1.totBuySize_ /\ s1.prevNanExp_ = FALSE
                                       THEN LET n == printNA(s1, "BUY")
                                            IN  [s1 EXCEPT !.prevNanExp_ = n.prevNan, !.cout = n.cout]
                                       ELSE s1
                             ELSE s1
                   IN  [st |-> s2, removeFromMemory |-> f.removeFromMemory]
              ELSE [st |-> s, removeFromMemory |-> removeFromMemory]
    IN  [st |-> IF r.removeFromMemory THEN [r.st EXCEPT !.buyMap_ = MapErase(@, price)] ELSE r.st,
         removeFromMemory |-> r.removeFromMemory]

reduceSellOrder(s, id, price, size, removeFromMemory, ord) ==
    LET r  == IF price \in DOMAIN s.sellMap_
              THEN LET f  == searchId(s.sellMap_[price], id, size, removeFromMemory, s.totSellSize_)
                       s1 == [s EXCEPT !.sellMap_[price] = f.innerMap, !.totSellSize_ = f.totSize]
                       s2 == IF f.found
                             THEN IF target_ <= s1.totSellSize_ THEN printSell(s1, ord)
                                  ELSE IF target_ > s1.totSellSize_ /\ s1.prevNanIncome_ = FALSE
                                       THEN LET n == printNA(s1, "SELL")
                                            IN  [s1 EXCEPT !.prevNanIncome_ = n.prevNan, !.cout = n.cout]
                                       ELSE s1
                             ELSE s1
                   IN  [st |-> s2, removeFromMemory |-> f.removeFromMemory]
              ELSE [st |-> s, removeFromMemory |-> removeFromMemory]
    IN  [st |-> IF r.removeFromMemory THEN [r.st EXCEPT !.sellMap_ = MapErase(@, price)] ELSE r.st,
         removeFromMemory |-> r.removeFromMemory]

reduceOrder(s, id, side, size, ord) ==
    LET price == s.hashTable_[id].price
        r == IF side = "BUY" THEN reduceBuyOrder(s, id, price, size, FALSE, ord)
             ELSE IF side = "SELL" THEN reduceSellOrder(s, id, price, size, FALSE, ord)
             ELSE [st |-> s, removeFromMemory |-> FALSE]
    IN  IF r.removeFromMemory THEN [r.st EXCEPT !.hashTable_ = MapErase(@, id)] ELSE r.st

\* ------------------------------------------------------------- the machine
\* the object's fields at the start of an event; nothing written yet
Fields ==
    [buyMap_ |-> buyMap_, sellMap_ |-> sellMap_, hashTable_ |-> hashTable_,
     totBuySize_ |-> totBuySize_, totSellSize_ |-> totSellSize_,
     prevExpenses_ |-> prevExpenses_, prevIncome_ |-> prevIncome_,
     prevNanExp_ |-> prevNanExp_, prevNanIncome_ |-> prevNanIncome_,
     cout |-> <<>>, walk |-> <<>>]

\* ids stored in some level of a book
RestingIds(book) == UNION {DOMAIN book[p] : p \in DOMAIN book}

\* the id has an order in a level of one of the two books
Rests(id) == id \in RestingIds(buyMap_) \cup RestingIds(sellMap_)

\* the lines of out that belong to a side (Buy lines carry S, Sell lines carry B)
LinesOf(out, side) == SelectSeq(out, LAMBDA l : l.label = (IF side = "BUY" THEN "S" ELSE "B"))

Commit(s, event) ==
    /\ buyMap_' = s.buyMap_
    /\ sellMap_' = s.sellMap_
    /\ hashTable_' = s.hashTable_
    /\ totBuySize_' = s.totBuySize_
    /\ totSellSize_' = s.totSellSize_
    /\ prevExpenses_' = s.prevExpenses_
    /\ prevIncome_' = s.prevIncome_
    /\ prevNanExp_' = s.prevNanExp_
    /\ prevNanIncome_' = s.prevNanIncome_
    /\ cout' = s.cout
    /\ walk' = s.walk
    /\ ev' = event
    /\ emitted' = [sd \in Sides |-> emitted[sd] \o LinesOf(s.cout, sd)]
    /\ nEvents' = nEvents + 1

Init ==
    /\ buyMap_ = EmptyMap
    /\ sellMap_ = EmptyMap
    /\ hashTable_ = EmptyMap
    /\ totBuySize_ = 0
    /\ totSellSize_ = 0
    /\ prevExpenses_ = 0
    /\ prevIncome_ = 0
    /\ prevNanExp_ = TRUE
    /\ prevNanIncome_ = TRUE
    /\ cout = <<>>
    /\ walk = <<>>
    /\ ev = [type |-> "-", id |-> "-", side |-> "-", price |-> 0, size |-> 0, known |-> FALSE, rested |-> FALSE]
    /\ emitted = [sd \in Sides |-> <<>>]
    /\ nEvents = 0

\* main(), type == 'A': the body of the branch
ReadAdd(id, side, price, size, ord) ==
    Commit(handleNewOrder(Fields, id, side, size, price, ord),
           [type |-> "A", id |-> id, side |-> side, price |-> price, size |-> size,
            known |-> id \in DOMAIN hashTable_, rested |-> Rests(id)])

\* main(), type == 'R': the body of the branch
ReadReduce(id, size, ord) ==
    IF id \in DOMAIN hashTable_
    THEN Commit(reduceOrder(Fields, id, hashTable_[id].side, size, ord),
                [type |-> "R", id |-> id, side |-> hashTable_[id].side,
                 price |-> hashTable_[id].price, size |-> size, known |-> TRUE,
                 rested |-> Rests(id)])
    ELSE Commit(Fields,
                [type |-> "R", id |-> id, side |-> "-", price |-> 0, size |-> size, known |-> FALSE,
                 rested |-> Rests(id)])

\* main(), type == 'A'
AddLine(id, side, price, size, ord) ==
    /\ nEvents < MaxEvents
    /\ ReadAdd(id, side, price, size, ord)

\* main(), type == 'R'
ReduceLine(id, size, ord) ==
    /\ nEvents < MaxEvents
    /\ ReadReduce(id, size, ord)

Next ==
    \/ \E id \in Ids, side \in Sides, price \in Prices, size \in NewSizes, ord \in IterOrders :
          AddLine(id, side, price, size, ord)
    \/ \E id \in Ids, size \in ReduceSizes, ord \in IterOrders :
          ReduceLine(id, size, ord)

Spec == Init /\ [][Next]_vars

\* ---- input files in which no new-order line repeats the id of a resting
\* order (an id comes back only after its order was fully reduced), one line
\* longer than under Spec
FreshAddLine(id, side, price, size, ord) ==
    /\ nEvents < MaxEvents + 1
    /\ ~Rests(id)
    /\ ReadAdd(id, side, price, size, ord)

FreshReduceLine(id, size, ord) ==
    /\ nEvents < MaxEvents + 1
    /\ ReadReduce(id, size, ord)

NextFresh ==
    \/ \E id \in Ids, side \in Sides, price \in Prices, size \in NewSizes, ord \in IterOrders :
          FreshAddLine(id, side, price, size, ord)
    \/ \E id \in Ids, size \in ReduceSizes, ord \in IterOrders :
          FreshReduceLine(id, size, ord)

SpecFresh == Init /\ [][NextFresh]_vars

\* ---- input files that also hold new-order lines of quantity 0
NextZero ==
    \/ \E id \in Ids, side \in Sides, price \in Prices, size \in NewSizes \cup {0}, ord \in IterOrders :
          AddLine(id, side, price, size, ord)
    \/ \E id \in Ids, size \in ReduceSizes, ord \in IterOrders :
          ReduceLine(id, size, ord)

SpecZero == Init /\ [][NextZero]_vars

\* ------------------------------------------------ what the claims speak of
RECURSIVE SumOver(_, _)
SumOver(f, keys) ==
    IF keys = {} THEN 0
    ELSE LET k == CHOOSE x \in keys : TRUE IN f[k] + SumOver(f, keys \ {k})

\* quantity held at one price level
LevelQuantity(innerMap) == SumOver(innerMap, DOMAIN innerMap)

\* quantity actually resting in a book, over all levels and ids
RestingTotal(book) == SumOver([p \in DOMAIN book |-> LevelQuantity(book[p])], DOMAIN book)

BookOf(side) == IF side = "BUY" THEN buyMap_ ELSE sellMap_

TotalOf(side) == IF side = "BUY" THEN totBuySize_ ELSE totSellSize_

\* the side's output state: Undefined flag and the value last handed to print
UndefinedOf(side) == IF side = "BUY" THEN prevNanExp_ ELSE prevNanIncome_

PrevValueOf(side) == IF side = "BUY" THEN prevExpenses_ ELSE prevIncome_

\* the valuation as the specification states it: levels best price first,
\* each level contributes min(level quantity, remaining unmet target)
RECURSIVE BestFirst(_, _, _, _)
BestFirst(book, prices, side, remaining) ==
    IF prices = {} \/ remaining <= 0 THEN [value |-> 0, consumed |-> 0]
    ELSE LET best == IF side = "BUY" THEN CHOOSE p \in prices : \A q \in prices : p >= q
                                     ELSE CHOOSE p \in prices : \A q \in prices : p <= q
             qty  == LevelQuantity(book[best])
             take == IF qty < remaining THEN qty ELSE remaining
             rest == BestFirst(book, prices \ {best}, side, remaining - take)
         IN  [value |-> take * best + rest.value, consumed |-> take + rest.consumed]

DepthValue(book, side) == BestFirst(book, DOMAIN book, side, target_)

\* ------------------------------------------------------------------ claims

\* C1: whenever a valued line is emitted for a side, its value is the sum of
\* price * consumed over that side's levels walked best price first on the
\* book as it stands after the event, each level contributing
\* min(level quantity, remaining unmet target), and the consumed quantities
\* add up to exactly the target.
C1_ValuedLineIsBestFirstFill ==
    \A sd \in Sides : \A i \in 1..Len(LinesOf(cout, sd)) :
        LET line == LinesOf(cout, sd)[i]
            dv   == DepthValue(BookOf(sd), sd)
        IN  ~line.na => /\ line.amount = dv.value
                        /\ dv.consumed = target_

\* C2: the valuation never consumes more than the target in total, and a
\* numeric value is never reported (emitted, or stored as the side's last
\* value) for a side whose book holds less than the target in total.
C2_NoValueBelowTarget ==
    /\ \A i \in 1..Len(walk) : walk[i].currSize <= target_
    /\ \A i \in 1..Len(walk) : RestingTotal(BookOf(walk[i].side)) >= target_
    /\ \A sd \in Sides : \A i \in 1..Len(LinesOf(cout, sd)) :
          ~LinesOf(cout, sd)[i].na => RestingTotal(BookOf(sd)) >= target_

\* C3: an event on a side that leaves at least the target resting there, with
\* valuation x, emits a line exactly when the side was Undefined or x differs
\* from the value previously emitted; the line is the single valued line x and
\* the side becomes Valued(x); otherwise nothing is emitted and the side's
\* state does not change.
C3_EmitIffChanged ==
    [][\A sd \in Sides :
          (ev'.side = sd /\ RestingTotal(BookOf(sd)') >= target_) =>
             LET x == DepthValue(BookOf(sd)', sd).value
                 valued == [label |-> IF sd = "BUY" THEN "S" ELSE "B", na |-> FALSE, amount |-> x]
             IN  IF UndefinedOf(sd) \/ x # PrevValueOf(sd)
                 THEN /\ cout' = <<valued>>
                      /\ ~UndefinedOf(sd)' /\ PrevValueOf(sd)' = x
                 ELSE /\ cout' = <<>>
                      /\ UndefinedOf(sd)' = UndefinedOf(sd) /\ PrevValueOf(sd)' = PrevValueOf(sd)]_vars

\* C4: a reduce event of a resting order that leaves its side's book below the
\* target makes a Valued side Undefined with exactly one NA line, and emits
\* nothing when the side was already Undefined.
C4_DropBelowTargetAnnouncedOnce ==
    [][\A sd \in Sides :
          (ev'.type = "R" /\ ev'.side = sd /\ ev'.rested /\ RestingTotal(BookOf(sd)') < target_) =>
             LET na == [label |-> IF sd = "BUY" THEN "S" ELSE "B", na |-> TRUE, amount |-> 0]
             IN  IF ~UndefinedOf(sd)
                 THEN cout' = <<na>> /\ UndefinedOf(sd)'
                 ELSE cout' = <<>> /\ UndefinedOf(sd)']_vars

\* C5: for each side no two lines emitted one after the other carry the same
\* content, and the first line ever emitted for a side is a valued line.
C5_NoRepeatedLine ==
    \A sd \in Sides :
        /\ \A i \in 1..(Len(emitted[sd]) - 1) : emitted[sd][i] # emitted[sd][i + 1]
        /\ emitted[sd] # <<>> => ~emitted[sd][1].na

\* a side whose value came back after an NA line to the value it had before
C5_Witness ==
    \E sd \in Sides :
        /\ Len(emitted[sd]) >= 3
        /\ ~emitted[sd][1].na /\ emitted[sd][2].na /\ emitted[sd][3] = emitted[sd][1]

\* C6: after every event a side is Undefined exactly when the quantity resting
\* in its book is below the target, and Valued otherwise; before any event
\* both sides are Undefined.
C6_UndefinedIffBelowTarget ==
    /\ \A sd \in Sides : UndefinedOf(sd) <=> RestingTotal(BookOf(sd)) < target_
    /\ nEvents = 0 => \A sd \in Sides : UndefinedOf(sd)

\* C7: a reduce event for an id that has no resting order changes neither
\* book, nor the index, the totals or the output state, and emits nothing.
C7_ReduceWithoutOrderIsNoOp ==
    [][(ev'.type = "R" /\ ~Rests(ev'.id)) =>
          /\ UNCHANGED <<buyMap_, sellMap_, hashTable_, totBuySize_, totSellSize_>>
          /\ UNCHANGED <<prevExpenses_, prevIncome_, prevNanExp_, prevNanIncome_, emitted>>
          /\ cout' = <<>>]_vars

\* a reduce for an id whose order was fully reduced earlier but whose index
\* entry is still there, so that reduceOrder runs
C7_Witness ==
    /\ ev.type = "R" /\ ev.known /\ ~ev.rested
    /\ ev.price \in DOMAIN BookOf(ev.side)
    /\ \E sd \in Sides : ~UndefinedOf(sd)

\* C8: after a reduce event that brings an order's resting quantity to exactly
\* zero the id is neither in its price level nor in the order index, whether
\* or not other orders rest at the same price.
C8_FullReductionReclaimsIndex ==
    [][\A sd \in Sides, id \in Ids, p \in Prices :
          (/\ ev'.type = "R" /\ ev'.known
           /\ ev'.side = sd /\ ev'.id = id /\ ev'.price = p
           /\ p \in DOMAIN BookOf(sd)
           /\ id \in DOMAIN BookOf(sd)[p]
           /\ BookOf(sd)[p][id] = ev'.size) =>
             /\ id \notin DOMAIN hashTable_'
             /\ p \in DOMAIN (BookOf(sd)') => id \notin DOMAIN ((BookOf(sd)')[p])]_vars

\* C9: after every event the ids stored in the levels of the two books are
\* exactly the keys of the order index.
C9_BooksAndIndexAgree ==
    RestingIds(buyMap_) \cup RestingIds(sellMap_) = DOMAIN hashTable_

\* C10: after every event each side's aggregate counter equals the sum of the
\* resting quantities in that side's book and is never negative.
C10_CounterIsRestingTotal ==
    \A sd \in Sides : TotalOf(sd) = RestingTotal(BookOf(sd)) /\ TotalOf(sd) >= 0

\* quantity held at price p of a book (0 when there is no such level)
QuantityAt(book, p) == IF p \in DOMAIN book THEN LevelQuantity(book[p]) ELSE 0

\* C11 as stated: every new-order event at a price raises the quantity held at
\* that price level by the event's quantity, so that over a run of new-order
\* events at one price the level holds the sum of their quantities.
C11_LevelHoldsSumOfAdds ==
    [][\A sd \in Sides, p \in Prices :
          (ev'.type = "A" /\ ev'.side = sd /\ ev'.price = p) =>
             QuantityAt(BookOf(sd)', p) = QuantityAt(BookOf(sd), p) + ev'.size]_vars

\* C11: a new-order event at a price raises the quantity held at that price
\* level by its quantity when its id is not yet stored at the level, and
\* leaves the level as it is when the id is already there; over a run of
\* new-order events at one price the level holds the sum of the quantities of
\* the events that brought a new id.
C11_LevelHoldsSumOfFirstAdds ==
    [][\A sd \in Sides, p \in Prices :
          (ev'.type = "A" /\ ev'.side = sd /\ ev'.price = p) =>
             QuantityAt(BookOf(sd)', p) = QuantityAt(BookOf(sd), p)
                + (IF p \in DOMAIN BookOf(sd) /\ ev'.id \in DOMAIN BookOf(sd)[p] THEN 0 ELSE ev'.size)]_vars

\* three new-order events at one price of one side, the last repeating an id
C11_Witness ==
    /\ nEvents = 3 /\ ev.type = "A" /\ ev.rested
    /\ DOMAIN BookOf(ev.side) = {ev.price}
    /\ DOMAIN BookOf(ev.side)[ev.price] = Ids
    /\ TotalOf(ev.side) = QuantityAt(BookOf(ev.side), ev.price) + ev.size

\* C12: every line written by an event on a Buy order carries the label S and
\* every line written by an event on a Sell order carries the label B, valued
\* lines (whose amount is the walk of that side's book) and NA lines alike.
C12_CrossLabels ==
    \A i \in 1..Len(cout) :
        /\ ev.side \in Sides
        /\ cout[i].label = (IF ev.side = "BUY" THEN "S" ELSE "B")
        /\ ~cout[i].na => walk = <<[side |-> ev.side, amount |-> cout[i].amount, currSize |-> walk[1].currSize]>>
        /\ cout[i].na => walk = <<>> /\ UndefinedOf(ev.side)

\* a reduce of a Buy order wrote the NA line under the label S
C12_Witness ==
    /\ ev.type = "R" /\ ev.side = "BUY"
    /\ cout = <<[label |-> "S", na |-> TRUE, amount |-> 0]>>

\* C13: one event writes at most one line, and that line is a line of the
\* side whose order the event adds or reduces (the other side's book is not
\* touched by the event).
C13_AtMostOneLinePerEvent ==
    [][/\ Len(cout') <= 1
       /\ cout' # <<>> =>
            /\ ev'.side \in Sides
            /\ \A sd \in Sides :
                  IF sd = ev'.side
                  THEN LinesOf(cout', sd) = cout'
                  ELSE LinesOf(cout', sd) = <<>> /\ BookOf(sd)' = BookOf(sd)]_vars

\* a new Sell order wrote its one line while the Buy side holds a value
C13_Witness ==
    /\ ev.type = "A" /\ ev.side = "SELL" /\ Len(cout) = 1
    /\ ~UndefinedOf("BUY") /\ RestingIds(buyMap_) # {}

\* C14: a new-order event for an id that already has an index entry leaves
\* that entry's (side, price) as it was, whatever the event carries, and
\* records the event's (side, price) when the id had no entry.
C14_FirstIndexEntryWins ==
    [][\A id \in Ids :
          (ev'.type = "A" /\ ev'.id = id) =>
             /\ id \in DOMAIN hashTable_'
             /\ hashTable_'[id] = IF id \in DOMAIN hashTable_ THEN hashTable_[id]
                                  ELSE [side |-> ev'.side, price |-> ev'.price]
             /\ \A other \in Ids \ {id} :
                   /\ other \in DOMAIN hashTable_' <=> other \in DOMAIN hashTable_
                   /\ other \in DOMAIN hashTable_ => hashTable_'[other] = hashTable_[other]]_vars

\* a new-order event repeated an indexed id with another side and price
C14_Witness ==
    /\ ev.type = "A" /\ ev.known
    /\ hashTable_[ev.id].side # ev.side
    /\ hashTable_[ev.id].price # ev.price

\* the id is stored at price p of side sd's book
StoredAt(id, sd, p) == p \in DOMAIN BookOf(sd) /\ id \in DOMAIN BookOf(sd)[p]

\* C15: after every event every id of the order index rests with a strictly
\* positive quantity at the recorded price of the recorded side's book, and
\* at no other price level of either book.
C15_IndexedIdRestsWhereRecorded ==
    \A id \in DOMAIN hashTable_ :
        /\ StoredAt(id, hashTable_[id].side, hashTable_[id].price)
        /\ BookOf(hashTable_[id].side)[hashTable_[id].price][id] > 0
        /\ \A sd \in Sides, p \in Prices :
              StoredAt(id, sd, p) => sd = hashTable_[id].side /\ p = hashTable_[id].price

\* C16: a reduce event of quantity r for an id that rests with quantity q at a
\* price level leaves q - r there when q > r and removes the id from the level
\* otherwise, also when the id was added again after a full reduction; the
\* side is then re-evaluated (walked when its total reaches the target,
\* Undefined otherwise).
C16_ReduceHitsRestingOrder ==
    [][\A id \in Ids, sd \in Sides, p \in Prices :
          (ev'.type = "R" /\ ev'.id = id /\ StoredAt(id, sd, p)) =>
             LET q == BookOf(sd)[p][id]
                 r == ev'.size
             IN  /\ IF q > r
                    THEN /\ p \in DOMAIN (BookOf(sd)')
                         /\ id \in DOMAIN ((BookOf(sd)')[p])
                         /\ (BookOf(sd)')[p][id] = q - r
                    ELSE p \in DOMAIN (BookOf(sd)') => id \notin DOMAIN ((BookOf(sd)')[p])
                 /\ IF TotalOf(sd)' >= target_
                    THEN Len(walk') = 1 /\ walk'[1].side = sd /\ ~UndefinedOf(sd)'
                    ELSE walk' = <<>> /\ UndefinedOf(sd)']_vars

\* C17: after every event every id stored in a price level has a strictly
\* positive quantity, for new orders of any non-negative quantity and
\* reductions of any quantity.
C17_StoredQuantityPositive ==
    \A sd \in Sides, p \in Prices, id \in Ids :
        StoredAt(id, sd, p) => BookOf(sd)[p][id] > 0

\* C18: after every event no price level of either book has an empty inner
\* mapping: a reduce that removes the last id of a level removes the level.
C18_NoEmptyLevel ==
    \A sd \in Sides : \A p \in DOMAIN BookOf(sd) : DOMAIN BookOf(sd)[p] # {}

\* a reduce removed the last id of its level (its index entry went with it)
\* while the same book keeps another level
C18_Witness ==
    /\ ev.type = "R" /\ ev.known /\ ev.rested
    /\ ev.id \notin DOMAIN hashTable_
    /\ ev.price \notin DOMAIN BookOf(ev.side)
    /\ DOMAIN BookOf(ev.side) # {}

\* C19: an event on a Buy order leaves the Sell book, the Sell total and the
\* Sell side's output state (last value and Undefined flag) unchanged and
\* writes no Sell line; likewise an event on a Sell order for the Buy side.
C19_SidesIndependent ==
    [][\A sd \in Sides, other \in Sides :
          (ev'.side = sd /\ other # sd) =>
             /\ BookOf(other)' = BookOf(other)
             /\ TotalOf(other)' = TotalOf(other)
             /\ PrevValueOf(other)' = PrevValueOf(other)
             /\ UndefinedOf(other)' = UndefinedOf(other)
             /\ LinesOf(cout', other) = <<>>
             /\ emitted'[other] = emitted[other]]_vars

\* an event on a Buy order wrote a line while the Sell side holds a value
\* different from the Buy side's
C19_Witness ==
    /\ ev.side = "BUY" /\ cout # <<>>
    /\ ~UndefinedOf("SELL") /\ RestingIds(sellMap_) # {}
    /\ PrevValueOf("SELL") # PrevValueOf("BUY")

====
